---- MODULE Spec2Model ----
(***************************************************************************)
(* State-machine model of the transit sentiment dashboard:                 *)
(*   - the aggregation functions processSentimentOverTime and              *)
(*     processTagsDistribution of the data processor,                      *)
(*   - the Dashboard component: its state, its user handlers and the       *)
(*     filter effect that recomputes filteredData and the derived series,  *)
(*   - report generation: handleGenerateSummary of the Dashboard and       *)
(*     generateReportSection of the AI service.                            *)
(*                                                                         *)
(* JavaScript strings are TLA+ strings drawn from a finite vocabulary; the *)
(* string functions the code calls (toLowerCase, toUpperCase, trim, split, *)
(* Number, new Date, parseISO) are given by their values on that           *)
(* vocabulary.  A JavaScript number is a record [nan, n].  Instants are    *)
(* counted in days instead of milliseconds (an order-preserving change of  *)
(* unit; the date strings of the vocabulary carry no time of day and the   *)
(* runtime time zone is taken to be UTC).                                  *)
(***************************************************************************)
EXTENDS Integers, Sequences, FiniteSets, TLC

(***************************************************************************)
(* Bounds of the model.                                                    *)
(***************************************************************************)
\* rows of a loaded data set, when every handler of the Dashboard may run
MaxRows == 2
\* rows of a loaded data set, when the aggregation functions are exercised
MaxAggRows == 3
\* rows of a loaded data set, when reports are generated
MaxReportRows == 2
\* rows of a loaded data set, when rows lack fields
MaxRaggedRows == 2
\* rows of a loaded data set, when the course of a generation run is followed
MaxRunRows == 1

(***************************************************************************)
(* JavaScript values.                                                      *)
(***************************************************************************)
Undefined == "<undefined>"

Null == "<null>"

NaN == [nan |-> TRUE, n |-> 0]

Num(k) == [nan |-> FALSE, n |-> k]

\* a - b on JavaScript numbers
Minus(a, b) == IF a.nan \/ b.nan THEN NaN ELSE Num(a.n - b.n)

\* x || 0 on a JavaScript number: NaN and 0 are falsy
OrZero(x) == IF x.nan THEN 0 ELSE x.n

\* Number(v) for the values a numeric CSV field takes in the vocabulary
Number(v) ==
    CASE v = "10" -> Num(10)
      [] v = "5" -> Num(5)
      [] v = "3" -> Num(3)
      [] v = "-3" -> Num(0 - 3)
      [] v = "" -> Num(0)
      [] OTHER -> NaN

\* String.prototype.toLowerCase on the vocabulary
ToLowerCase(s) ==
    CASE s = "Positive" -> "positive"
      [] s = "Negative" -> "negative"
      [] s = "NEUTRAL" -> "neutral"
      [] s = "Mixed" -> "mixed"
      [] s = "Driver was rude at Oshodi" -> "driver was rude at oshodi"
      [] OTHER -> s

\* String.prototype.toUpperCase on the vocabulary
ToUpperCase(s) ==
    CASE s = "Fares" -> "FARES"
      [] s = "Safety" -> "SAFETY"
      [] s = "others" -> "OTHERS"
      [] OTHER -> s

\* String.prototype.trim on the vocabulary
Trim(s) ==
    CASE s = " OTHERS" -> "OTHERS"
      [] s = " Safety" -> "Safety"
      [] s = " 7" -> "7"
      [] s = " " -> ""
      [] OTHER -> s

\* String.prototype.split(',') on the tags fields of the vocabulary
Split(s) ==
    CASE s = "Fares, OTHERS, Safety" -> <<"Fares", " OTHERS", " Safety">>
      [] s = "Fares, Safety" -> <<"Fares", " Safety">>
      [] s = "Safety, 7" -> <<"Safety", " 7">>
      [] s = "OTHERS, " -> <<"OTHERS", " ">>
      [] OTHER -> <<s>>

\* A property key that is a canonical array index ("0", "1", ... ): such keys
\* are enumerated before all string keys, in ascending numeric order.
IsArrayIndex(k) == k \in {"7"}

ArrayIndex(k) == CASE k = "7" -> 7 [] OTHER -> 0

(***************************************************************************)
(* Dates.  A Date is [valid, y, m, d]; getTime is NaN for an Invalid Date. *)
(***************************************************************************)
InvalidDate == [valid |-> FALSE, y |-> 0, m |-> 0, d |-> 0]

Cal(y, m, d) == [valid |-> TRUE, y |-> y, m |-> m, d |-> d]

\* date-fns parseISO: ISO 8601 strings only
parseISO(s) ==
    CASE s = "2024-01-05" -> Cal(2024, 1, 5)
      [] s = "2024-01-20" -> Cal(2024, 1, 20)
      [] s = "2023-12-31" -> Cal(2023, 12, 31)
      [] OTHER -> InvalidDate

\* new Date(string): ISO 8601 strings and the legacy formats of Date.parse
NewDate(s) ==
    CASE s = "Jan 5, 2024" -> Cal(2024, 1, 5)
      [] OTHER -> parseISO(s)

getTime(date) ==
    IF date.valid THEN Num((date.y * 12 + (date.m - 1)) * 31 + date.d) ELSE NaN

isNaN(x) == x.nan

\* date-fns isAfter(date, dateToCompare)
isAfter(date, dateToCompare) ==
    LET a == getTime(date)
        b == getTime(dateToCompare)
    IN  ~a.nan /\ ~b.nan /\ a.n > b.n

(***************************************************************************)
(* Sequence helpers.                                                       *)
(***************************************************************************)
Range(s) == {s[i] : i \in DOMAIN s}

Includes(s, x) == \E i \in DOMAIN s : s[i] = x

Slice(s, n) == IF Len(s) <= n THEN s ELSE SubSeq(s, 1, n)

Perms(s) ==
    {[i \in DOMAIN s |-> s[p[i]]] :
        p \in {q \in [DOMAIN s -> DOMAIN s] : \A i, j \in DOMAIN s : i # j => q[i] # q[j]}}

(***************************************************************************)
(* Rows of the CSV (RawData).  RowPool is the vocabulary of rows: empty,   *)
(* unparseable, ISO and legacy-format dates; sentiment labels in several   *)
(* casings, an unrecognized one and a missing one; numeric, negative and   *)
(* non-numeric counters; single, multiple, aliased, numeric, placeholder,  *)
(* empty and missing tags; topic labels including the Noise sentinel, the  *)
(* empty label and the missing label.                                      *)
(***************************************************************************)
Row(date, sentiment, engagements, replies, tags, label, tweet) ==
    [date |-> date, sentiment |-> sentiment, engagements |-> engagements,
     replies |-> replies, tags |-> tags, merged_label |-> label,
     cleaned_tweet |-> tweet]

RowPool ==
    << Row("2024-01-05", "Positive", "10", "3", "Fares", "Delays",
           "Driver was rude at Oshodi"),
       Row("2024-01-20", "Negative", "5", "", "FAIRS", "Noise", "great ride today"),
       Row("n/a", "NEUTRAL", "3", "5", "Fares, Safety", "", ""),
       Row("2023-12-31", "Mixed", "abc", "abc", "Fares, OTHERS, Safety", "Delays",
           "great ride today"),
       Row("", "positive", "5", "10", "OTHERS, ", "Noise", Undefined),
       Row("Jan 5, 2024", "neutral", "-3", "3", Undefined, "Others", "great ride today"),
       Row("2024-01-05", "", "", "", "Safety, 7", "Delays", "Driver was rude at Oshodi"),
       Row("2024-01-20", Undefined, "10", "5", "", Undefined, Undefined) >>

\* a row shorter than the header line: Papa.parse leaves its fields undefined
ShortRow == Row(Undefined, Undefined, Undefined, Undefined, Undefined, Undefined, Undefined)

\* the sequences of at most n rows of pool
RowSeqsOf(pool, n) == UNION {[1..k -> Range(pool)] : k \in 0..n}

\* data sets loaded when every filter handler may run: they hold two
\* normalized tags and two topics, so that every selection of tags and topics
\* is explored
RowSeqs == RowSeqsOf(SubSeq(RowPool, 1, 3), MaxRows)

\* data sets loaded when the aggregation functions are exercised
AggRowSeqs == RowSeqsOf(RowPool, MaxAggRows)

\* a row of lower engagement than RowPool[1], with a tag of its own and a text
\* that holds no keyword of any section
SafetyRow == Row("2024-01-20", "Negative", "5", "", "Safety", "Noise", "great ride today")

\* data sets loaded when reports are generated: a row tagged Fares whose text
\* holds keywords of two sections and a row tagged Safety of lower engagement
\* whose text holds none
ReportRowSeqs == RowSeqsOf(<<RowPool[1], SafetyRow>>, MaxReportRows)

\* data sets loaded when the course of a generation run is followed
RunRowSeqs == RowSeqsOf(<<RowPool[1], SafetyRow>>, MaxRunRows)

\* data sets loaded when rows lack fields
RaggedRowSeqs == RowSeqsOf(<<RowPool[1], RowPool[3], ShortRow>>, MaxRaggedRows)

\* values an <input type="date"> delivers: the empty string or an ISO date
DateInputs == {"", "2023-12-31", "2024-01-20"}

(***************************************************************************)
(* processSentimentOverTime                                                *)
(***************************************************************************)
Truthy(s) == s # "" /\ s # Undefined

\* row['sentiment text']?.toLowerCase()
SentimentOf(row) ==
    IF row.sentiment = Undefined THEN Undefined ELSE ToLowerCase(row.sentiment)

IndexOfDate(grouped, dateStr) ==
    IF \E i \in DOMAIN grouped : grouped[i].date = dateStr
    THEN CHOOSE i \in DOMAIN grouped : grouped[i].date = dateStr
    ELSE 0

NewSentimentBucket(dateStr) ==
    [date |-> dateStr, positive |-> 0, negative |-> 0, neutral |-> 0,
     totalEngagements |-> 0, totalReplies |-> 0]

\* the increments of one row on its bucket
AddToSentimentBucket(b, row) ==
    LET sentiment == SentimentOf(row)
    IN  [b EXCEPT
            !.positive = IF sentiment = "positive" THEN @ + 1 ELSE @,
            !.negative = IF sentiment = "negative" THEN @ + 1 ELSE @,
            !.neutral = IF sentiment = "neutral" THEN @ + 1 ELSE @,
            !.totalEngagements = @ + OrZero(Number(row.engagements)),
            !.totalReplies = @ + OrZero(Number(row.replies))]

\* the body of data.forEach: grouped is the object's values in insertion order
SentimentStep(grouped, row) ==
    LET dateStr == row.date
    IN  IF ~Truthy(dateStr) THEN grouped
        ELSE LET g == IF IndexOfDate(grouped, dateStr) = 0
                      THEN Append(grouped, NewSentimentBucket(dateStr))
                      ELSE grouped
                 i == IndexOfDate(g, dateStr)
             IN  [g EXCEPT ![i] = AddToSentimentBucket(g[i], row)]

RECURSIVE GroupedByDate(_)
GroupedByDate(data) ==
    IF data = <<>> THEN <<>>
    ELSE SentimentStep(GroupedByDate(SubSeq(data, 1, Len(data) - 1)), data[Len(data)])

\* (a, b) => new Date(a.date).getTime() - new Date(b.date).getTime()
CompareByDate(a, b) == Minus(getTime(NewDate(a.date)), getTime(NewDate(b.date)))

\* Array.prototype.sort reads a comparator result of NaN as +0
SortCompare(v) == IF v.nan THEN 0 ELSE v.n

RECURSIVE InsertByDate(_, _)
InsertByDate(sorted, x) ==
    IF sorted = <<>> THEN <<x>>
    ELSE LET last == sorted[Len(sorted)]
         IN  IF SortCompare(CompareByDate(last, x)) > 0
             THEN Append(InsertByDate(SubSeq(sorted, 1, Len(sorted) - 1), x), last)
             ELSE Append(sorted, x)

RECURSIVE StableSortByDate(_)
StableSortByDate(s) ==
    IF s = <<>> THEN <<>>
    ELSE InsertByDate(StableSortByDate(SubSeq(s, 1, Len(s) - 1)), s[Len(s)])

\* whether the comparator is a consistent comparison function for the
\* elements of s (ECMAScript, Array.prototype.sort)
ConsistentByDate(s) ==
    LET v(a, b) == SortCompare(CompareByDate(a, b))
    IN  \A a, b, c \in Range(s) :
            /\ (v(a, b) = 0 /\ v(b, c) = 0) => v(a, c) = 0
            /\ (v(a, b) < 0 /\ v(b, c) < 0) => v(a, c) < 0
            /\ (v(a, b) > 0 /\ v(b, c) > 0) => v(a, c) > 0
            /\ (v(a, b) < 0) <=> (v(b, a) > 0)

\* the results Array.prototype.sort may leave: the stably sorted sequence
\* when the comparator is consistent, otherwise an implementation-defined
\* order of the same elements
SortByDateOutcomes(s) ==
    IF ConsistentByDate(s) THEN {StableSortByDate(s)} ELSE Perms(s)

\* data.forEach(...) of processSentimentOverTime, then Object.values(grouped);
\* no date string of the vocabulary is an array-index key, so the values come
\* in insertion order
SentimentGrouped(data) == GroupedByDate(data)

\* the set of sequences processSentimentOverTime(data) may return
processSentimentOverTime(data) == SortByDateOutcomes(SentimentGrouped(data))

(***************************************************************************)
(* processTagsDistribution                                                 *)
(***************************************************************************)
\* the tags of a row without the filter that drops '' and 'OTHERS'
RowTagsKeepPlaceholders(row) ==
    LET parts == Split(row.tags)
    IN  [i \in DOMAIN parts |-> Trim(parts[i])]

\* row.tags.split(',').map(t => t.trim()).filter(t => t && t !== 'OTHERS'),
\* for a row whose tags field is present
RowTags(row) ==
    LET parts == Split(row.tags)
        trimmed == [i \in DOMAIN parts |-> Trim(parts[i])]
        keep(t) == t # "" /\ t # "OTHERS"
    IN  SelectSeq(trimmed, keep)

IndexOfTag(tagMap, tag) ==
    IF \E i \in DOMAIN tagMap : tagMap[i].tag = tag
    THEN CHOOSE i \in DOMAIN tagMap : tagMap[i].tag = tag
    ELSE 0

\* the body of tags.forEach with a final else that counts every other
\* sentiment as neutral
TagStepElseNeutral(tagMap, tag, sentiment) ==
    LET m == IF IndexOfTag(tagMap, tag) = 0
             THEN Append(tagMap, [tag |-> tag, positive |-> 0, negative |-> 0,
                                  neutral |-> 0, total |-> 0])
             ELSE tagMap
        i == IndexOfTag(m, tag)
    IN  [m EXCEPT ![i] =
            [@ EXCEPT
                !.positive = IF sentiment = "positive" THEN @ + 1 ELSE @,
                !.negative = IF sentiment = "negative" THEN @ + 1 ELSE @,
                !.neutral = IF sentiment \notin {"positive", "negative"} THEN @ + 1 ELSE @,
                !.total = @ + 1]]

\* the body of tags.forEach for one tag of one row
TagStep(tagMap, tag, sentiment) ==
    LET m == IF IndexOfTag(tagMap, tag) = 0
             THEN Append(tagMap, [tag |-> tag, positive |-> 0, negative |-> 0,
                                  neutral |-> 0, total |-> 0])
             ELSE tagMap
        i == IndexOfTag(m, tag)
    IN  [m EXCEPT ![i] =
            [@ EXCEPT
                !.positive = IF sentiment = "positive" THEN @ + 1 ELSE @,
                !.negative = IF sentiment = "negative" THEN @ + 1 ELSE @,
                !.neutral = IF sentiment = "neutral" THEN @ + 1 ELSE @,
                !.total = @ + 1]]

RECURSIVE TagsOfRowStep(_, _, _)
TagsOfRowStep(tagMap, tags, sentiment) ==
    IF tags = <<>> THEN tagMap
    ELSE TagsOfRowStep(TagStep(tagMap, Head(tags), sentiment), Tail(tags), sentiment)

\* the body of data.forEach
TagRowStep(tagMap, row) ==
    IF row.tags = Undefined THEN tagMap
    ELSE TagsOfRowStep(tagMap, RowTags(row), SentimentOf(row))

RECURSIVE TagMapOf(_)
TagMapOf(data) ==
    IF data = <<>> THEN <<>>
    ELSE TagRowStep(TagMapOf(SubSeq(data, 1, Len(data) - 1)), data[Len(data)])

RECURSIVE InsertByIndex(_, _)
InsertByIndex(sorted, x) ==
    IF sorted = <<>> THEN <<x>>
    ELSE LET last == sorted[Len(sorted)]
         IN  IF ArrayIndex(last.tag) > ArrayIndex(x.tag)
             THEN Append(InsertByIndex(SubSeq(sorted, 1, Len(sorted) - 1), x), last)
             ELSE Append(sorted, x)

RECURSIVE SortByIndex(_)
SortByIndex(s) ==
    IF s = <<>> THEN <<>>
    ELSE InsertByIndex(SortByIndex(SubSeq(s, 1, Len(s) - 1)), s[Len(s)])

\* Object.values(tagMap): array-index keys first, ascending, then the other
\* keys in insertion order (OrdinaryOwnPropertyKeys)
ObjectValues(tagMap) ==
    LET isIndex(e) == IsArrayIndex(e.tag)
        isString(e) == ~IsArrayIndex(e.tag)
    IN  SortByIndex(SelectSeq(tagMap, isIndex)) \o SelectSeq(tagMap, isString)

\* (a, b) => b.total - a.total
CompareByTotal(a, b) == Minus(Num(b.total), Num(a.total))

RECURSIVE InsertByTotal(_, _)
InsertByTotal(sorted, x) ==
    IF sorted = <<>> THEN <<x>>
    ELSE LET last == sorted[Len(sorted)]
         IN  IF SortCompare(CompareByTotal(last, x)) > 0
             THEN Append(InsertByTotal(SubSeq(sorted, 1, Len(sorted) - 1), x), last)
             ELSE Append(sorted, x)

\* Array.prototype.sort with a consistent comparator is a stable sort
RECURSIVE SortByTotal(_)
SortByTotal(s) ==
    IF s = <<>> THEN <<>>
    ELSE InsertByTotal(SortByTotal(SubSeq(s, 1, Len(s) - 1)), s[Len(s)])

TopN == 10

processTagsDistribution(data) == Slice(SortByTotal(ObjectValues(TagMapOf(data))), TopN)

(***************************************************************************)
(* Dashboard: the filter effect                                            *)
(***************************************************************************)
\* the date-range predicate with the end of the range excluded
InDateRangeEndExcluded(d, customRange) ==
    LET start == parseISO(customRange.start)
        end == parseISO(customRange.end)
        dDate == parseISO(d.date)
    IN  IF isNaN(getTime(dDate)) THEN FALSE
        ELSE /\ (isAfter(dDate, start) \/ getTime(dDate) = getTime(start))
             /\ isAfter(end, dDate)

\* the predicate of the date-range filter, for a row d
InDateRange(d, customRange) ==
    LET start == parseISO(customRange.start)
        end == parseISO(customRange.end)
        dDate == parseISO(d.date)
    IN  IF isNaN(getTime(dDate)) THEN FALSE
        ELSE /\ (isAfter(dDate, start) \/ getTime(dDate) = getTime(start))
             /\ (isAfter(end, dDate) \/ getTime(dDate) = getTime(end))

\* the timeframe block applying the range whenever the timeframe is custom
DateFilteredAnyCustom(rows, timeframe, customRange) ==
    IF timeframe = "custom"
    THEN LET keep(d) == InDateRange(d, customRange) IN SelectSeq(rows, keep)
    ELSE rows

\* the rows left by the timeframe block
DateFiltered(rows, timeframe, customRange) ==
    IF timeframe = "custom" /\ customRange.start # "" /\ customRange.end # ""
    THEN LET keep(d) == InDateRange(d, customRange) IN SelectSeq(rows, keep)
    ELSE rows

\* the tags of a row in upper case, the pieces not trimmed
UpperTagsUntrimmed(d) ==
    IF d.tags = Undefined THEN <<>>
    ELSE LET parts == Split(d.tags)
         IN  [i \in DOMAIN parts |-> ToUpperCase(parts[i])]

\* d.tags?.split(',').map(t => t.trim().toUpperCase()) || []
UpperTags(d) ==
    IF d.tags = Undefined THEN <<>>
    ELSE LET parts == Split(d.tags)
         IN  [i \in DOMAIN parts |-> ToUpperCase(Trim(parts[i]))]

\* the tags predicate without the clause that lets FARES match FAIRS
MatchesTagsNoAlias(d, selectedTags) ==
    LET tags == UpperTags(d)
    IN  \E k \in DOMAIN selectedTags :
            LET normalizedSelected == ToUpperCase(selectedTags[k])
            IN  Includes(tags, normalizedSelected)

\* the predicate of the tags filter, for a row d
MatchesTags(d, selectedTags) ==
    LET tags == UpperTags(d)
    IN  \E k \in DOMAIN selectedTags :
            LET normalizedSelected == ToUpperCase(selectedTags[k])
            IN  \/ Includes(tags, normalizedSelected)
                \/ (normalizedSelected = "FARES" /\ Includes(tags, "FAIRS"))

\* d.merged_label === 'Noise' ? 'Others' : d.merged_label
TopicLabel(d) == IF d.merged_label = "Noise" THEN "Others" ELSE d.merged_label

\* the topics predicate on the raw label, without Noise -> Others
MatchesTopicsRawLabel(d, selectedTopics) ==
    LET label == d.merged_label
    IN  Truthy(label) /\ Includes(selectedTopics, label)

\* the predicate of the topics filter, for a row d
MatchesTopics(d, selectedTopics) ==
    LET label == TopicLabel(d)
    IN  Truthy(label) /\ Includes(selectedTopics, label)

\* the tags mode applies both predicates (if ... if instead of if ... else if)
CategoryFilteredBoth(rows, filterMode, selectedTags, selectedTopics) ==
    LET keepTags(d) == MatchesTags(d, selectedTags)
        keepTopics(d) == MatchesTopics(d, selectedTopics)
        byTags == IF selectedTags # <<>> THEN SelectSeq(rows, keepTags) ELSE rows
    IN  IF selectedTopics # <<>> THEN SelectSeq(byTags, keepTopics) ELSE byTags

\* the category block without the length > 0 conditions: an empty selection
\* of the active mode keeps no row
CategoryFilteredEmptyDropsAll(rows, filterMode, selectedTags, selectedTopics) ==
    LET keepTags(d) == MatchesTags(d, selectedTags)
        keepTopics(d) == MatchesTopics(d, selectedTopics)
    IN  IF filterMode = "tags" THEN SelectSeq(rows, keepTags)
        ELSE IF filterMode = "topics" THEN SelectSeq(rows, keepTopics)
             ELSE rows

\* the rows left by the category block
CategoryFiltered(rows, filterMode, selectedTags, selectedTopics) ==
    LET keepTags(d) == MatchesTags(d, selectedTags)
        keepTopics(d) == MatchesTopics(d, selectedTopics)
    IN  IF filterMode = "tags" /\ selectedTags # <<>> THEN SelectSeq(rows, keepTags)
        ELSE IF filterMode = "topics" /\ selectedTopics # <<>>
             THEN SelectSeq(rows, keepTopics)
             ELSE rows

\* the category block reads the loaded rows instead of the rows left by the
\* timeframe block
FilteredFromData(rows, timeframe, customRange, filterMode, selectedTags, selectedTopics) ==
    LET byCategory == CategoryFiltered(rows, filterMode, selectedTags, selectedTopics)
    IN  IF byCategory # rows THEN byCategory
        ELSE DateFiltered(rows, timeframe, customRange)

\* the value of `filtered` at the end of the effect
Filtered(rows, timeframe, customRange, filterMode, selectedTags, selectedTopics) ==
    CategoryFiltered(DateFiltered(rows, timeframe, customRange),
                     filterMode, selectedTags, selectedTopics)

\* allTags: the normalized tags offered for selection (as a set; the order in
\* which the buttons are shown is not modelled)
AllTags(rows) ==
    LET norm(t) == LET tag == ToUpperCase(Trim(t))
                   IN  IF tag = "FAIRS" THEN "FARES" ELSE tag
        ofRow(d) == IF d.tags = Undefined THEN {} ELSE {norm(t) : t \in Range(Split(d.tags))}
    IN  UNION {ofRow(rows[i]) : i \in DOMAIN rows} \ {""}

\* allTopics: the topic labels offered for selection
AllTopics(rows) == {TopicLabel(rows[i]) : i \in DOMAIN rows} \ {"", Undefined}

\* the reducer of totals counting as neutral only the rows labelled neutral
TotalsStepNeutralOnly(acc, curr) ==
    LET s == SentimentOf(curr)
    IN  [engagements |-> acc.engagements + OrZero(Number(curr.engagements)),
         replies |-> acc.replies + OrZero(Number(curr.replies)),
         positive |-> acc.positive + (IF s = "positive" THEN 1 ELSE 0),
         negative |-> acc.negative + (IF s = "negative" THEN 1 ELSE 0),
         neutral |-> acc.neutral + (IF s = "neutral" THEN 1 ELSE 0)]

\* the reducer of totals: (acc, curr) => { ...; if (s === 'positive')
\* acc.positive++; else if (s === 'negative') acc.negative++; else
\* acc.neutral++; return acc }
TotalsStep(acc, curr) ==
    LET s == SentimentOf(curr)
    IN  [engagements |-> acc.engagements + OrZero(Number(curr.engagements)),
         replies |-> acc.replies + OrZero(Number(curr.replies)),
         positive |-> acc.positive + (IF s = "positive" THEN 1 ELSE 0),
         negative |-> acc.negative + (IF s = "negative" THEN 1 ELSE 0),
         neutral |-> acc.neutral + (IF s \notin {"positive", "negative"} THEN 1 ELSE 0)]

\* rows.reduce(TotalsStep, { engagements: 0, replies: 0, positive: 0,
\* negative: 0, neutral: 0 })
RECURSIVE TotalsReduce(_)
TotalsReduce(rows) ==
    IF rows = <<>>
    THEN [engagements |-> 0, replies |-> 0, positive |-> 0, negative |-> 0, neutral |-> 0]
    ELSE TotalsStep(TotalsReduce(SubSeq(rows, 1, Len(rows) - 1)), rows[Len(rows)])

(***************************************************************************)
(* Exceptions.  A method call on an undefined receiver raises a TypeError  *)
(* unless the call is made with optional chaining (?.).  The row fields    *)
(* are strings or undefined, so no other call of the three operations can  *)
(* raise; parseISO returns an Invalid Date for an argument that is not a   *)
(* string (its documented result).                                         *)
(***************************************************************************)
MethodCallRaises(receiver, optionalChaining) ==
    receiver = Undefined /\ ~optionalChaining

\* row.tags.split(',') without optional chaining
TagsSplitRaisesUnguarded(row) == MethodCallRaises(row.tags, FALSE)

\* row.tags?.split(',') (part_000:63) and d.tags?.split(',') (part_003:546)
TagsSplitRaises(row) == MethodCallRaises(row.tags, TRUE)

\* row['sentiment text']?.toLowerCase()
SentimentLowerRaises(row) == MethodCallRaises(row.sentiment, TRUE)

\* whether processSentimentOverTime(data) raises
processSentimentOverTimeRaises(data) ==
    \E i \in DOMAIN data : Truthy(data[i].date) /\ SentimentLowerRaises(data[i])

\* whether processTagsDistribution(data) raises
processTagsDistributionRaises(data) ==
    \E i \in DOMAIN data : TagsSplitRaises(data[i]) \/ SentimentLowerRaises(data[i])

\* whether the filter blocks of the effect raise
FilterRaises(rows, timeframe, customRange, filterMode, selectedTags, selectedTopics) ==
    /\ filterMode = "tags"
    /\ selectedTags # <<>>
    /\ LET dated == DateFiltered(rows, timeframe, customRange)
       IN  \E i \in DOMAIN dated : TagsSplitRaises(dated[i])

(***************************************************************************)
(* AI service: generateReportSection                                       *)
(***************************************************************************)
\* the ids of REPORT_SECTIONS
Sections == <<"hotspots", "incidents", "conduct", "safety", "infrastructure", "suggestions">>

\* (t['cleaned tweet'] || t['tweet'] || '').toLowerCase(); the CSV has no
\* column named tweet
TweetText(t) == IF Truthy(t.cleaned_tweet) THEN ToLowerCase(t.cleaned_tweet) ELSE ""

\* section.keywords.some(kw => text.includes(kw)) on the texts of the
\* vocabulary: 'oshodi' is a keyword of hotspots, 'driver' and 'rude' are
\* keywords of conduct, and "great ride today" holds no keyword
HasKeyword(section, text) ==
    CASE text = "driver was rude at oshodi" -> section \in {"hotspots", "conduct"}
      [] OTHER -> FALSE

\* (a, b) => (Number(b['Total Engagements']) || 0) - (Number(a['Total Engagements']) || 0)
CompareByEngagements(a, b) ==
    Minus(Num(OrZero(Number(b.engagements))), Num(OrZero(Number(a.engagements))))

RECURSIVE InsertByEngagements(_, _)
InsertByEngagements(sorted, x) ==
    IF sorted = <<>> THEN <<x>>
    ELSE LET last == sorted[Len(sorted)]
         IN  IF SortCompare(CompareByEngagements(last, x)) > 0
             THEN Append(InsertByEngagements(SubSeq(sorted, 1, Len(sorted) - 1), x), last)
             ELSE Append(sorted, x)

RECURSIVE SortByEngagements(_)
SortByEngagements(s) ==
    IF s = <<>> THEN <<>>
    ELSE InsertByEngagements(SortByEngagements(SubSeq(s, 1, Len(s) - 1)), s[Len(s)])

ContextSize == 15

\* the row selection of generateReportSection: the rows put in the prompt
\* (context) and the array passed as `data` as the call leaves it (data);
\* Array.prototype.sort sorts `data` in place when no row holds a keyword
SelectRows(section, data) ==
    LET relevant(t) == HasKeyword(section, TweetText(t))
        sectionRelevantData == SelectSeq(data, relevant)
    IN  IF Len(sectionRelevantData) = 0
        THEN [data |-> SortByEngagements(data),
              context |-> Slice(SortByEngagements(data), ContextSize)]
        ELSE [data |-> data,
              context |-> Slice(SortByEngagements(sectionRelevantData), ContextSize)]

\* new HfInference(token) returns a client or raises
ClientOutcomes == {"constructed", "throws"}

\* hf.textGeneration and the cleanup of its text: a paragraph is left, or
\* the empty string, or the request or the cleanup raises
ProviderOutcomes == {"paragraph", "empty", "error"}

Paragraph == "<paragraph>"

NoReports == "No specific reports found for this focus area in the current dataset."

Unavailable == "Analysis temporarily unavailable."

\* the value the try ... catch of generateReportSection returns
SectionContent(outcome) ==
    CASE outcome = "paragraph" -> Paragraph
      [] outcome = "empty" -> NoReports
      [] OTHER -> Unavailable

(***************************************************************************)
(* Dashboard: state                                                        *)
(***************************************************************************)
\* The state of the Dashboard component, and with it:
\*   filteredIsData  whether filteredData refers to the array data refers to
\*                   (the effect starts from `let filtered = data` and each
\*                   filter block that runs makes a new array)
\*   raised          whether the filter effect has raised an exception
\*   runs            the invocations of handleGenerateSummary in flight, each
\*                   with the index i of the section it awaits, the array
\*                   its closure holds as filteredData (rows, and arr: the
\*                   array of data, the current array of filteredData, or an
\*                   old one) and the rows of the pending prompt (context)
\*   sectionPromise  the promise returned by the latest call of
\*                   generateReportSection
\* aiResults holds, in insertion order, the entries [id, content] of the
\* object, each with the rows passed to the call that returned the content
\* (data).
VARIABLES data, filteredData, sentimentOverTime, tagsDistribution, timeframe,
          customRange, filterMode, selectedTags, selectedTopics, aggregation,
          loading, aiResults, aiLoading, activeSectionId, hfToken, showTokenInput,
          filteredIsData, raised, runs, sectionPromise

vars == <<data, filteredData, sentimentOverTime, tagsDistribution, timeframe,
          customRange, filterMode, selectedTags, selectedTopics, aggregation,
          loading, aiResults, aiLoading, activeSectionId, hfToken, showTokenInput,
          filteredIsData, raised, runs, sectionPromise>>

\* the state of report generation
aiVars == <<aiLoading, activeSectionId, hfToken, showTokenInput, sectionPromise>>

Init ==
    /\ data = <<>>
    /\ filteredData = <<>>
    /\ sentimentOverTime = <<>>
    /\ tagsDistribution = <<>>
    /\ timeframe = "all"
    /\ customRange = [start |-> "", end |-> ""]
    /\ filterMode = "tags"
    /\ selectedTags = <<>>
    /\ selectedTopics = <<>>
    /\ aggregation = "monthly"
    /\ loading = TRUE
    /\ aiResults = <<>>
    /\ aiLoading = FALSE
    /\ activeSectionId = Null
    /\ hfToken = ""
    /\ showTokenInput = FALSE
    /\ filteredIsData = FALSE
    /\ raised = FALSE
    /\ runs = <<>>
    /\ sectionPromise = [state |-> "none", value |-> Undefined]

\* The effect with dependencies [data, timeframe, customRange, selectedTags,
\* selectedTopics, filterMode, aggregation], run on the state the handler
\* leaves.  processSentimentOverTime is called with (filtered, aggregation);
\* the function declares one parameter, so the second argument is dropped.
\* An exception leaves the state as it was and unmounts the component.
FilterEffect ==
    IF Len(data') = 0
    THEN UNCHANGED <<filteredData, sentimentOverTime, tagsDistribution, aiResults,
                     filteredIsData, raised, runs>>
    ELSE \E filtered \in {Filtered(data', timeframe', customRange', filterMode',
                                   selectedTags', selectedTopics')} :
             IF \/ FilterRaises(data', timeframe', customRange', filterMode',
                                 selectedTags', selectedTopics')
                \/ processSentimentOverTimeRaises(filtered)
                \/ processTagsDistributionRaises(filtered)
             THEN /\ raised' = TRUE
                  /\ UNCHANGED <<filteredData, sentimentOverTime, tagsDistribution,
                                 aiResults, filteredIsData, runs>>
             ELSE /\ filteredData' = filtered
                  /\ sentimentOverTime' \in processSentimentOverTime(filteredData')
                  /\ tagsDistribution' = processTagsDistribution(filteredData')
                  /\ aiResults' = <<>>
                  /\ filteredIsData' =
                         /\ ~(timeframe' = "custom" /\ customRange'.start # ""
                                  /\ customRange'.end # "")
                         /\ ~(filterMode' = "tags" /\ selectedTags' # <<>>)
                         /\ ~(filterMode' = "topics" /\ selectedTopics' # <<>>)
                  /\ runs' = [k \in DOMAIN runs |->
                                 IF runs[k].arr = "current"
                                 THEN [runs[k] EXCEPT !.arr = "old"]
                                 ELSE runs[k]]
                  /\ raised' = raised

(***************************************************************************)
(* Dashboard: handlers.  Each handler is followed by the effect its state  *)
(* change triggers; a setter called with the current value changes nothing *)
(* and triggers nothing.  The controls are rendered once loading is false  *)
(* and as long as no exception has unmounted the component.                *)
(***************************************************************************)
Rendered == ~loading /\ ~raised

\* Papa.parse complete: setData(rawData); setLoading(false)
LoadData(rawData) ==
    /\ loading
    /\ UNCHANGED aiVars
    /\ data' = rawData
    /\ loading' = FALSE
    /\ UNCHANGED <<timeframe, customRange, filterMode, selectedTags, selectedTopics,
                   aggregation>>
    /\ FilterEffect

SetTimeframe(t) ==
    /\ Rendered
    /\ UNCHANGED aiVars
    /\ t # timeframe
    /\ timeframe' = t
    /\ UNCHANGED <<data, loading, customRange, filterMode, selectedTags,
                   selectedTopics, aggregation>>
    /\ FilterEffect

SetAggregation(a) ==
    /\ Rendered
    /\ UNCHANGED aiVars
    /\ a # aggregation
    /\ aggregation' = a
    /\ UNCHANGED <<data, loading, timeframe, customRange, filterMode, selectedTags,
                   selectedTopics>>
    /\ FilterEffect

\* the start <input type="date">, rendered when timeframe is 'custom'
SetCustomStart(v) ==
    /\ Rendered
    /\ UNCHANGED aiVars
    /\ timeframe = "custom"
    /\ v # customRange.start
    /\ customRange' = [customRange EXCEPT !.start = v]
    /\ UNCHANGED <<data, loading, timeframe, filterMode, selectedTags, selectedTopics,
                   aggregation>>
    /\ FilterEffect

\* the end <input type="date">, rendered when timeframe is 'custom'
SetCustomEnd(v) ==
    /\ Rendered
    /\ UNCHANGED aiVars
    /\ timeframe = "custom"
    /\ v # customRange.end
    /\ customRange' = [customRange EXCEPT !.end = v]
    /\ UNCHANGED <<data, loading, timeframe, filterMode, selectedTags, selectedTopics,
                   aggregation>>
    /\ FilterEffect

\* a mode switch that also clears both selections
SetFilterModeClearing(m) ==
    /\ Rendered
    /\ UNCHANGED aiVars
    /\ m # filterMode
    /\ filterMode' = m
    /\ selectedTags' = <<>>
    /\ selectedTopics' = <<>>
    /\ UNCHANGED <<data, loading, timeframe, customRange, aggregation>>
    /\ FilterEffect

SetFilterMode(m) ==
    /\ Rendered
    /\ UNCHANGED aiVars
    /\ m # filterMode
    /\ filterMode' = m
    /\ UNCHANGED <<data, loading, timeframe, customRange, selectedTags, selectedTopics,
                   aggregation>>
    /\ FilterEffect

\* prev.includes(x) ? prev.filter(t => t !== x) : [...prev, x]
Toggle(prev, x) ==
    IF Includes(prev, x)
    THEN LET keep(t) == t # x IN SelectSeq(prev, keep)
    ELSE Append(prev, x)

\* a tag button, rendered in tags mode for each tag of allTags
ToggleTag(tag) ==
    /\ Rendered
    /\ UNCHANGED aiVars
    /\ filterMode = "tags"
    /\ selectedTags' = Toggle(selectedTags, tag)
    /\ UNCHANGED <<data, loading, timeframe, customRange, filterMode, selectedTopics,
                   aggregation>>
    /\ FilterEffect

\* "Clear Selection", rendered in tags mode when a tag is selected
ClearTags ==
    /\ Rendered
    /\ UNCHANGED aiVars
    /\ filterMode = "tags"
    /\ Len(selectedTags) > 0
    /\ selectedTags' = <<>>
    /\ UNCHANGED <<data, loading, timeframe, customRange, filterMode, selectedTopics,
                   aggregation>>
    /\ FilterEffect

\* a topic button, rendered in topics mode for each topic of allTopics
ToggleTopic(topic) ==
    /\ Rendered
    /\ UNCHANGED aiVars
    /\ filterMode = "topics"
    /\ selectedTopics' = Toggle(selectedTopics, topic)
    /\ UNCHANGED <<data, loading, timeframe, customRange, filterMode, selectedTags,
                   aggregation>>
    /\ FilterEffect

\* "Clear All Topics", rendered in topics mode when a topic is selected
ClearTopics ==
    /\ Rendered
    /\ UNCHANGED aiVars
    /\ filterMode = "topics"
    /\ Len(selectedTopics) > 0
    /\ selectedTopics' = <<>>
    /\ UNCHANGED <<data, loading, timeframe, customRange, filterMode, selectedTags,
                   aggregation>>
    /\ FilterEffect

(***************************************************************************)
(* Dashboard: report generation.  An async function runs without           *)
(* interruption up to its next await on the provider: a handler step ends  *)
(* where generateReportSection awaits hf.textGeneration, and the step that *)
(* settles this request runs the rest of the call, the continuation of the *)
(* loop of handleGenerateSummary and the next call up to its await.        *)
(***************************************************************************)
\* the array filteredData refers to, as a closure made now holds it
CurrentArr == IF filteredIsData THEN "data" ELSE "current"

\* setAiResults(prev => ({ ...prev, [id]: content }))
WithResult(prev, id, content, rows) ==
    LET entry == [id |-> id, content |-> content, data |-> rows]
    IN  IF \E k \in DOMAIN prev : prev[k].id = id
        THEN [k \in DOMAIN prev |-> IF prev[k].id = id THEN entry ELSE prev[k]]
        ELSE Append(prev, entry)

\* the runs in flight other than the k-th
OtherRuns(k) == SubSeq(runs, 1, k - 1) \o SubSeq(runs, k + 1, Len(runs))

\* the call for the i-th section when a throw leaves the loop without the
\* finally block of handleGenerateSummary
CallSectionNoFinally(run, others, i, client, loadingAfter) ==
    IF client = "throws"
    THEN /\ sectionPromise' = [state |-> "rejected", value |-> Undefined]
         /\ UNCHANGED <<aiLoading, activeSectionId>>
         /\ runs' = others
         /\ UNCHANGED <<data, filteredData>>
    ELSE LET sel == SelectRows(Sections[i], run.rows)
             sameArray(r) == r.arr = run.arr /\ run.arr # "old"
         IN  /\ sectionPromise' = [state |-> "pending", value |-> Undefined]
             /\ aiLoading' = loadingAfter
             /\ activeSectionId' = Sections[i]
             /\ runs' = [k \in DOMAIN others |->
                            IF sameArray(others[k])
                            THEN [others[k] EXCEPT !.rows = sel.data]
                            ELSE others[k]]
                        \o <<[i |-> i, rows |-> sel.data, arr |-> run.arr,
                              context |-> sel.context]>>
             /\ data' = IF run.arr = "data" THEN sel.data ELSE data
             /\ filteredData' = IF run.arr = "current" \/ (run.arr = "data" /\ filteredIsData)
                                THEN sel.data
                                ELSE filteredData

\* setActiveSectionId(section.id) and the call generateReportSection(section,
\* filteredData, ...) for the i-th section, made by a run whose closure holds
\* the array run.arr with the rows run.rows (others: the other runs in
\* flight; loadingAfter: aiLoading as the run leaves it when it goes on).
\* new HfInference(token) is outside the try block: when it raises, the
\* promise is rejected, the await raises in handleGenerateSummary and its
\* catch and finally blocks run.  Otherwise the rows are selected, which may
\* sort the array in place, and the call awaits the provider.
CallSection(run, others, i, client, loadingAfter) ==
    IF client = "throws"
    THEN /\ sectionPromise' = [state |-> "rejected", value |-> Undefined]
         /\ aiLoading' = FALSE
         /\ activeSectionId' = Null
         /\ runs' = others
         /\ UNCHANGED <<data, filteredData>>
    ELSE LET sel == SelectRows(Sections[i], run.rows)
             sameArray(r) == r.arr = run.arr /\ run.arr # "old"
         IN  /\ sectionPromise' = [state |-> "pending", value |-> Undefined]
             /\ aiLoading' = loadingAfter
             /\ activeSectionId' = Sections[i]
             /\ runs' = [k \in DOMAIN others |->
                            IF sameArray(others[k])
                            THEN [others[k] EXCEPT !.rows = sel.data]
                            ELSE others[k]]
                        \o <<[i |-> i, rows |-> sel.data, arr |-> run.arr,
                              context |-> sel.context]>>
             /\ data' = IF run.arr = "data" THEN sel.data ELSE data
             /\ filteredData' = IF run.arr = "current" \/ (run.arr = "data" /\ filteredIsData)
                                THEN sel.data
                                ELSE filteredData

\* const totals = filteredData.reduce(...), computed at every render
totals == TotalsReduce(filteredData)

\* `Positive: ${totals.positive}, Negative: ${totals.negative}, Neutral:
\* ${totals.neutral}`, as the three numbers it shows
sentimentSummary == <<totals.positive, totals.negative, totals.neutral>>

\* a button that calls handleGenerateSummary can be clicked
GenerateEnabledAlways == TRUE

\* {showTokenInput ? <button onClick={handleGenerateSummary}> Go :
\*  <button onClick={handleGenerateSummary} disabled={aiLoading}>}
GenerateEnabled == showTokenInput \/ ~aiLoading

\* a click on "Generate Full Report" (disabled while aiLoading) or on "Go"
\* (rendered with the token input), up to the first await
handleGenerateSummary(client) ==
    /\ Rendered
    /\ GenerateEnabled
    /\ UNCHANGED <<sentimentOverTime, tagsDistribution, timeframe, customRange,
                   filterMode, selectedTags, selectedTopics, aggregation, loading,
                   hfToken, filteredIsData, raised>>
    /\ IF ~Truthy(hfToken)
       THEN /\ showTokenInput' = TRUE
            /\ UNCHANGED <<data, filteredData, aiResults, aiLoading, activeSectionId,
                           runs, sectionPromise>>
       ELSE /\ showTokenInput' = FALSE
            /\ aiResults' = <<>>
            /\ CallSection([rows |-> filteredData, arr |-> CurrentArr], runs, 1,
                           client, TRUE)

\* the provider request of the k-th run settles: generateReportSection
\* returns its content, the run stores it and goes on with the next section,
\* or ends after the last one
SectionSettles(k, outcome, client) ==
    /\ k \in DOMAIN runs
    /\ UNCHANGED <<sentimentOverTime, tagsDistribution, timeframe, customRange,
                   filterMode, selectedTags, selectedTopics, aggregation, loading,
                   hfToken, showTokenInput, filteredIsData, raised>>
    /\ LET run == runs[k]
       IN  /\ aiResults' = WithResult(aiResults, Sections[run.i], SectionContent(outcome),
                                      run.rows)
           /\ IF run.i < Len(Sections)
              THEN CallSection(run, OtherRuns(k), run.i + 1, client, aiLoading)
              ELSE /\ sectionPromise' = [state |-> "fulfilled",
                                         value |-> SectionContent(outcome)]
                   /\ aiLoading' = FALSE
                   /\ activeSectionId' = Null
                   /\ runs' = OtherRuns(k)
                   /\ UNCHANGED <<data, filteredData>>

\* the token input, rendered while showTokenInput
SetHfToken(v) ==
    /\ Rendered
    /\ showTokenInput
    /\ v # hfToken
    /\ hfToken' = v
    /\ UNCHANGED <<data, filteredData, sentimentOverTime, tagsDistribution, timeframe,
                   customRange, filterMode, selectedTags, selectedTopics, aggregation,
                   loading, aiResults, aiLoading, activeSectionId, showTokenInput,
                   filteredIsData, raised, runs, sectionPromise>>

\* The Dashboard when the user works the filter controls.
Next ==
    \/ \E rawData \in RowSeqs : LoadData(rawData)
    \/ \E t \in {"all", "custom"} : SetTimeframe(t)
    \/ \E a \in {"daily", "monthly"} : SetAggregation(a)
    \/ \E v \in DateInputs : SetCustomStart(v)
    \/ \E v \in DateInputs : SetCustomEnd(v)
    \/ \E m \in {"tags", "topics"} : SetFilterMode(m)
    \/ \E tag \in AllTags(data) : ToggleTag(tag)
    \/ ClearTags
    \/ \E topic \in AllTopics(data) : ToggleTopic(topic)
    \/ ClearTopics

Spec == Init /\ [][Next]_vars

\* The Dashboard when the user only switches the granularity: the loaded rows
\* reach the aggregation functions unfiltered.
NextAgg ==
    \/ \E rawData \in AggRowSeqs : LoadData(rawData)
    \/ \E a \in {"daily", "monthly"} : SetAggregation(a)

SpecAgg == Init /\ [][NextAgg]_vars

\* The Dashboard when the user generates reports and selects tags.
NextReport ==
    \/ \E rawData \in ReportRowSeqs : LoadData(rawData)
    \/ \E tag \in AllTags(data) : ToggleTag(tag)
    \/ \E v \in {"", "hf_token"} : SetHfToken(v)
    \/ \E client \in ClientOutcomes : handleGenerateSummary(client)
    \/ \E k \in DOMAIN runs, outcome \in ProviderOutcomes, client \in ClientOutcomes :
           SectionSettles(k, outcome, client)

SpecReport == Init /\ [][NextReport]_vars

\* The Dashboard when reports are generated and every request either gives a
\* paragraph or fails.
NextRun ==
    \/ \E rawData \in RunRowSeqs : LoadData(rawData)
    \/ \E tag \in AllTags(data) : ToggleTag(tag)
    \/ \E v \in {"", "hf_token"} : SetHfToken(v)
    \/ \E client \in ClientOutcomes : handleGenerateSummary(client)
    \/ \E k \in DOMAIN runs, outcome \in {"paragraph", "error"}, client \in ClientOutcomes :
           SectionSettles(k, outcome, client)

SpecRun == Init /\ [][NextRun]_vars

\* every request sent to the provider settles: the promise of
\* hf.textGeneration is fulfilled or rejected
SpecRunFair ==
    /\ SpecRun
    /\ WF_vars(\E k \in DOMAIN runs, outcome \in {"paragraph", "error"},
                  client \in ClientOutcomes : SectionSettles(k, outcome, client))

\* The Dashboard when the loaded rows lack fields and the user sets a date
\* range and selects tags and topics.
NextRagged ==
    \/ \E rawData \in RaggedRowSeqs : LoadData(rawData)
    \/ \E t \in {"all", "custom"} : SetTimeframe(t)
    \/ \E v \in DateInputs : SetCustomStart(v)
    \/ \E v \in DateInputs : SetCustomEnd(v)
    \/ \E m \in {"tags", "topics"} : SetFilterMode(m)
    \/ \E tag \in AllTags(data) : ToggleTag(tag)
    \/ \E topic \in AllTopics(data) : ToggleTopic(topic)

SpecRagged == Init /\ [][NextRagged]_vars

(***************************************************************************)
(* Properties                                                              *)
(***************************************************************************)
RECURSIVE SumSeq(_)
SumSeq(s) == IF s = <<>> THEN 0 ELSE Head(s) + SumSeq(Tail(s))

Loaded == ~loading /\ data # <<>>

\* a sentiment label that matches positive, negative or neutral, whatever its case
Recognized(row) == SentimentOf(row) \in {"positive", "negative", "neutral"}

\* a date field that is non-empty and denotes a date
Parseable(dateStr) == Truthy(dateStr) /\ NewDate(dateStr).valid

DatedRows(rows) == LET dated(r) == Parseable(r.date) IN SelectSeq(rows, dated)

SameMonth(a, b) == a.valid /\ b.valid /\ a.y = b.y /\ a.m = b.m

\* a is the same calendar day as b, or an earlier one
OnOrBefore(a, b) ==
    \/ a.y < b.y
    \/ a.y = b.y /\ a.m < b.m
    \/ a.y = b.y /\ a.m = b.m /\ a.d <= b.d

\* C1: the sentiment counts of all buckets add up to the number of rows with
\* a non-empty parseable date and a recognized sentiment.
C1_CountsMatchDatedRecognizedRows ==
    Loaded =>
        LET counts(b) == b.positive + b.negative + b.neutral
            counted(r) == Parseable(r.date) /\ Recognized(r)
        IN  SumSeq([i \in DOMAIN sentimentOverTime |-> counts(sentimentOverTime[i])])
                = Len(SelectSeq(filteredData, counted))

\* C2: totalEngagements of all buckets add up to the coerced engagements of
\* exactly the rows with a parseable date.
C2_EngagementsMatchDatedRows ==
    Loaded =>
        LET dated == DatedRows(filteredData)
        IN  SumSeq([i \in DOMAIN sentimentOverTime |-> sentimentOverTime[i].totalEngagements])
                = SumSeq([i \in DOMAIN dated |-> OrZero(Number(dated[i].engagements))])

\* C3: the buckets have pairwise distinct keys and come in ascending order of
\* the instants their keys denote.
C3_BucketsUniqueAndChronological ==
    Loaded =>
        \A i, j \in DOMAIN sentimentOverTime :
            i < j =>
                LET a == NewDate(sentimentOverTime[i].date)
                    b == NewDate(sentimentOverTime[j].date)
                IN  /\ sentimentOverTime[i].date # sentimentOverTime[j].date
                    /\ (a.valid /\ b.valid) => OnOrBefore(a, b)

\* C4: under monthly granularity every bucket key is the first day of a month
\* and rows of one calendar month share one bucket.
C4_MonthlyRowsShareBucket ==
    (Loaded /\ aggregation = "monthly") =>
        /\ \A i \in DOMAIN sentimentOverTime :
               LET k == NewDate(sentimentOverTime[i].date) IN k.valid => k.d = 1
        /\ \A i, j \in DOMAIN sentimentOverTime :
               i # j => ~SameMonth(NewDate(sentimentOverTime[i].date),
                                   NewDate(sentimentOverTime[j].date))

\* C5: rows with an empty or unparseable date create no bucket and add to
\* none: every bucket is keyed by a parseable date and the buckets are those
\* of the dated rows alone.
C5_UndatedRowsSkipped ==
    Loaded =>
        /\ \A i \in DOMAIN sentimentOverTime : Parseable(sentimentOverTime[i].date)
        /\ sentimentOverTime \in processSentimentOverTime(DatedRows(filteredData))

\* C6: tag identity is alias-normalized: no entry is tagged OTHERS, FAIRS is
\* counted under FARES, and a row tagged "Fares, OTHERS, Safety" makes exactly
\* the entries FARES and Safety.
C6_TagsAliasNormalized ==
    Loaded =>
        /\ \A i \in DOMAIN tagsDistribution : tagsDistribution[i].tag \notin {"OTHERS", "FAIRS"}
        /\ (Len(filteredData) = 1 /\ filteredData[1].tags = "Fares, OTHERS, Safety")
               => [i \in DOMAIN tagsDistribution |-> tagsDistribution[i].tag] = <<"FARES", "Safety">>

\* the tags of all rows, in the order the rows and their fields hold them
RECURSIVE TagOccurrences(_)
TagOccurrences(rows) ==
    IF rows = <<>> THEN <<>>
    ELSE (IF Head(rows).tags = Undefined THEN <<>> ELSE RowTags(Head(rows)))
         \o TagOccurrences(Tail(rows))

FirstOccurrence(occ, tag) == CHOOSE i \in DOMAIN occ : occ[i] = tag /\ \A k \in 1..(i - 1) : occ[k] # tag

Min(a, b) == IF a <= b THEN a ELSE b

\* C7: the tag distribution holds min(10, distinct tags) entries, by total
\* descending, tags of equal total in the order of their first occurrence.
C7_TopTagsOrdered ==
    Loaded =>
        LET occ == TagOccurrences(filteredData)
        IN  /\ Len(tagsDistribution) = Min(TopN, Cardinality(Range(occ)))
            /\ \A i, j \in DOMAIN tagsDistribution :
                   i < j =>
                       \/ tagsDistribution[i].total > tagsDistribution[j].total
                       \/ /\ tagsDistribution[i].total = tagsDistribution[j].total
                          /\ FirstOccurrence(occ, tagsDistribution[i].tag)
                                 < FirstOccurrence(occ, tagsDistribution[j].tag)

\* C8: the two rows of the end-to-end example give, under monthly
\* granularity, one January 2024 bucket with positive 1, negative 1,
\* neutral 0 and totalEngagements 15, and one tag entry FARES with total 2.
C8_EndToEndExample ==
    (Loaded /\ aggregation = "monthly" /\ filteredData = SubSeq(RowPool, 1, 2)) =>
        /\ Len(sentimentOverTime) = 1
        /\ SameMonth(NewDate(sentimentOverTime[1].date), Cal(2024, 1, 1))
        /\ sentimentOverTime[1].positive = 1
        /\ sentimentOverTime[1].negative = 1
        /\ sentimentOverTime[1].neutral = 0
        /\ sentimentOverTime[1].totalEngagements = 15
        /\ Len(tagsDistribution) = 1
        /\ tagsDistribution[1].tag = "FARES"
        /\ tagsDistribution[1].total = 2

RangeActive == timeframe = "custom" /\ customRange.start # "" /\ customRange.end # ""

\* whether row d passes the category block under the current selection
PassesCategory(d) ==
    CategoryFiltered(<<d>>, filterMode, selectedTags, selectedTopics) # <<>>

\* C9: with an active range a row is kept exactly when its date parses and
\* lies on or between start and end (and it passes the category block); with
\* start = end the rows kept are exactly those dated on that day.
C9_DateRangeInclusive ==
    (Loaded /\ RangeActive) =>
        LET start == parseISO(customRange.start)
            end == parseISO(customRange.end)
        IN  /\ Range(filteredData) \subseteq Range(data)
            /\ \A i \in DOMAIN data :
                   LET day == parseISO(data[i].date)
                   IN  /\ data[i] \in Range(filteredData)
                           <=> /\ day.valid
                               /\ OnOrBefore(start, day)
                               /\ OnOrBefore(day, end)
                               /\ PassesCategory(data[i])
                       /\ customRange.start = customRange.end
                           => (data[i] \in Range(filteredData)
                                  <=> (day = start /\ PassesCategory(data[i])))

\* a range of one day that keeps a row dated on that day and drops another
C9_Witness ==
    /\ Loaded /\ RangeActive
    /\ customRange.start = customRange.end
    /\ \E i, j \in DOMAIN data :
           /\ data[i] \in Range(filteredData)
           /\ data[j] \notin Range(filteredData)
           /\ PassesCategory(data[j])

TopicSelections ==
    {<<>>, <<"Delays">>, <<"Others">>, <<"Delays", "Others">>, <<"Others", "Delays">>}

TagSelections ==
    {<<>>, <<"FARES">>, <<"SAFETY">>, <<"FARES", "SAFETY">>, <<"SAFETY", "FARES">>}

\* C10: in tags mode with both selections non-empty every value of
\* selectedTopics gives the filtered rows the Dashboard holds, and in topics
\* mode every value of selectedTags does.
C10_InactiveSelectionIgnored ==
    (Loaded /\ selectedTags # <<>> /\ selectedTopics # <<>>) =>
        /\ filterMode = "tags" =>
               \A other \in TopicSelections :
                   Filtered(data, timeframe, customRange, filterMode, selectedTags, other)
                       = filteredData
        /\ filterMode = "topics" =>
               \A other \in TagSelections :
                   Filtered(data, timeframe, customRange, filterMode, other, selectedTopics)
                       = filteredData

\* tags mode, both selections non-empty, and a row is kept that the selected
\* topics do not match
C10_Witness ==
    /\ Loaded /\ filterMode = "tags"
    /\ selectedTags # <<>> /\ selectedTopics # <<>>
    /\ \E i \in DOMAIN filteredData : ~MatchesTopics(filteredData[i], selectedTopics)
    /\ Len(filteredData) < Len(data)

\* the tags of row d after split on comma, trim and uppercasing
UpperTagSet(d) == Range(UpperTags(d))

\* the FAIRS -> FARES alias on a set of uppercased tags
Aliased(tags) == {IF t = "FAIRS" THEN "FARES" ELSE t : t \in tags}

\* the selection sel after uppercasing
UpperSelection(sel) == {ToUpperCase(sel[k]) : k \in DOMAIN sel}

\* row d holds a tag that equals a selected tag, both sides normalized by
\* split, trim, uppercasing and the alias
NormalizedTagMatch(d, sel) == Aliased(UpperTagSet(d)) \cap Aliased(UpperSelection(sel)) # {}

\* the topic label of row d with Noise read as Others
AliasedLabel(d) == IF d.merged_label = "Noise" THEN "Others" ELSE d.merged_label

\* row d satisfies the date predicate of the current configuration
PassesDate(d) ==
    RangeActive =>
        LET day == parseISO(d.date)
        IN  /\ day.valid
            /\ OnOrBefore(parseISO(customRange.start), day)
            /\ OnOrBefore(day, parseISO(customRange.end))

\* row d satisfies the predicate of the active category mode alone
PassesActiveMode(d) ==
    IF filterMode = "tags"
    THEN selectedTags = <<>> \/ NormalizedTagMatch(d, selectedTags)
    ELSE selectedTopics = <<>> \/ AliasedLabel(d) \in Range(selectedTopics)

\* C11: filteredData is the subsequence of data, in the order of data, of
\* the rows that pass the date predicate and the predicate of the active
\* category mode; the predicate of the other mode is not applied.
C11_FilteredIsDateAndActiveMode ==
    Loaded =>
        LET keep(d) == PassesDate(d) /\ PassesActiveMode(d)
        IN  filteredData = SelectSeq(data, keep)

\* an active range and an active topic selection keep one row and drop
\* another, while a tag is selected too
C11_Witness ==
    /\ Loaded /\ RangeActive
    /\ filterMode = "topics" /\ selectedTopics # <<>> /\ selectedTags # <<>>
    /\ filteredData # <<>>
    /\ Len(filteredData) < Len(data)
    /\ \E i \in DOMAIN filteredData : ~MatchesTags(filteredData[i], selectedTags)

\* selections a caller of the tags predicate may pass, in the casings and
\* spellings the rows hold
RawTagSelections ==
    {<<"FARES">>, <<"FAIRS">>, <<"Fares">>, <<"SAFETY">>, <<"Safety">>,
     <<"FARES", "SAFETY">>, <<"FAIRS", "SAFETY">>, <<"SAFETY", "FAIRS">>}

C13_TopicMatchOnAliasedLabel ==
    (Loaded /\ filterMode = "topics" /\ selectedTopics # <<>>) =>
        /\ \A i \in DOMAIN data :
               data[i] \in Range(filteredData)
                   <=> (PassesDate(data[i]) /\ AliasedLabel(data[i]) \in Range(selectedTopics))
        /\ \A i \in DOMAIN filteredData :
               filteredData[i].merged_label \notin {"", Undefined}

\* Others is selected: a row labelled Noise is kept and a row with an empty
\* label is dropped
C13_Witness ==
    /\ Loaded /\ filterMode = "topics"
    /\ Includes(selectedTopics, "Others")
    /\ \E i \in DOMAIN filteredData : filteredData[i].merged_label = "Noise"
    /\ \E i \in DOMAIN data : data[i].merged_label = "" /\ data[i] \notin Range(filteredData)

\* the selection of the active category mode is empty
ActiveSelectionEmpty ==
    \/ filterMode = "tags" /\ selectedTags = <<>>
    \/ filterMode = "topics" /\ selectedTopics = <<>>

\* C14: when the selection of the active mode is empty, filteredData is the
\* subsequence of the rows that pass the date predicate, whatever the other
\* mode's selection holds.
C14_EmptySelectionPassesAll ==
    (Loaded /\ ActiveSelectionEmpty) =>
        LET keep(d) == PassesDate(d) IN filteredData = SelectSeq(data, keep)

\* tags mode with no tag selected, a topic selected that a kept row does not
\* match, and an active range that drops a row
C14_Witness ==
    /\ Loaded /\ filterMode = "tags" /\ selectedTags = <<>>
    /\ selectedTopics # <<>>
    /\ RangeActive
    /\ \E i \in DOMAIN filteredData : ~MatchesTopics(filteredData[i], selectedTopics)
    /\ Len(filteredData) < Len(data)

\* the pieces of the tags field of a row that are counted: trimmed, not
\* empty and not OTHERS
CountedPieces(row) ==
    IF row.tags = Undefined THEN <<>>
    ELSE LET parts == Split(row.tags)
             counted(p) == Trim(p) \notin {"", "OTHERS"}
             pieces == SelectSeq(parts, counted)
         IN  [k \in DOMAIN pieces |-> Trim(pieces[k])]

\* the (row, tag occurrence) pairs of rows counted for tag
TagPairs(rows, tag) ==
    UNION {{<<i, k>> : k \in {j \in DOMAIN CountedPieces(rows[i]) :
                                  CountedPieces(rows[i])[j] = tag}} : i \in DOMAIN rows}

\* C18: in every entry of the tag distribution total is the number of
\* (row, tag occurrence) pairs counted for the tag, and positive + negative +
\* neutral falls short of total by the number of those pairs whose row has a
\* sentiment that is none of positive, negative, neutral in any casing.
C18_TagTotalsCountOccurrences ==
    Loaded =>
        \A i \in DOMAIN tagsDistribution :
            LET e == tagsDistribution[i]
                pairs == TagPairs(filteredData, e.tag)
                unrecognized == {p \in pairs : ~Recognized(filteredData[p[1]])}
            IN  /\ e.total = Cardinality(pairs)
                /\ e.positive + e.negative + e.neutral <= e.total
                /\ e.total - (e.positive + e.negative + e.neutral) = Cardinality(unrecognized)

\* an entry counts two occurrences or more, one of a recognized sentiment
\* and one of an unrecognized sentiment
C18_Witness ==
    /\ Loaded
    /\ \E i \in DOMAIN tagsDistribution :
           LET e == tagsDistribution[i]
           IN  /\ e.total >= 2
               /\ e.positive + e.negative + e.neutral >= 1
               /\ e.positive + e.negative + e.neutral < e.total

\* rows without its i-th row
Without(rows, i) == SubSeq(rows, 1, i - 1) \o SubSeq(rows, i + 1, Len(rows))

\* the total of tag in the distribution dist, 0 when it has no entry
TotalOf(dist, tag) ==
    IF \E k \in DOMAIN dist : dist[k].tag = tag
    THEN (CHOOSE e \in Range(dist) : e.tag = tag).total
    ELSE 0

\* C19: a row with several tags adds to the entry of each of its tags (the
\* entry exists and its total exceeds the total computed without the row by
\* the occurrences of the tag in the row), and a row whose tags field is
\* missing, empty or holds only empty pieces and OTHERS leaves the
\* distribution as it is without the row.
C19_EachTagOfRowCounted ==
    Loaded =>
        \A i \in DOMAIN filteredData :
            LET pieces == CountedPieces(filteredData[i])
                without == processTagsDistribution(Without(filteredData, i))
            IN  /\ \A k \in DOMAIN pieces :
                       /\ \E n \in DOMAIN tagsDistribution : tagsDistribution[n].tag = pieces[k]
                       /\ TotalOf(tagsDistribution, pieces[k])
                              = TotalOf(without, pieces[k])
                                    + Cardinality({j \in DOMAIN pieces : pieces[j] = pieces[k]})
                /\ pieces = <<>> => tagsDistribution = without

\* a row with two counted tags is loaded with a row that holds only OTHERS
\* and an empty piece, a row with an empty tags field or a row without one
C19_Witness ==
    /\ Loaded
    /\ \E i \in DOMAIN filteredData : Len(CountedPieces(filteredData[i])) >= 2
    /\ \E i \in DOMAIN filteredData :
           /\ filteredData[i].tags \in {"OTHERS, ", "", Undefined}
           /\ CountedPieces(filteredData[i]) = <<>>
    /\ tagsDistribution # <<>>

\* C15: every section text held in aiResults was produced from the rows
\* filteredData holds now: none comes from an earlier filtered set, also
\* when a generation run was in flight while the filtered set was recomputed.
C15_NoStaleSectionText ==
    \A k \in DOMAIN aiResults : Range(aiResults[k].data) = Range(filteredData)

C20_SectionAlwaysResolves ==
    /\ sectionPromise.state # "rejected"
    /\ sectionPromise.state = "fulfilled" =>
           sectionPromise.value \in {Paragraph, NoReports, Unavailable} \ {""}
    /\ \A k \in DOMAIN aiResults :
           aiResults[k].content \in {Paragraph, NoReports, Unavailable} \ {""}

\* at most one invocation of handleGenerateSummary is in flight
OneRunInFlight == Len(runs) <= 1

\* C21: the context rows of every pending section request are the rows the
\* run holds as filteredData, sorted by engagements descending and cut to
\* the first n rows for some n from 20 to 40.
C21_ContextIsTopOfFilteredRows ==
    \A k \in DOMAIN runs :
        \E n \in 20..40 :
            runs[k].context = Slice(SortByEngagements(runs[k].rows), n)

\* C23: once the rows are loaded, sentimentOverTime is what
\* processSentimentOverTime returns for the rows filteredData holds now and
\* tagsDistribution is what processTagsDistribution returns for them, also
\* after report generation.
C23_DerivedNeverStale ==
    Loaded =>
        /\ sentimentOverTime \in processSentimentOverTime(filteredData)
        /\ tagsDistribution = processTagsDistribution(filteredData)

\* C24: in every bucket of sentimentOverTime the three counts are natural
\* numbers and totalEngagements and totalReplies are not negative.
C24_BucketsNonNegative ==
    \A i \in DOMAIN sentimentOverTime :
        LET b == sentimentOverTime[i]
        IN  /\ b.positive \in Nat /\ b.negative \in Nat /\ b.neutral \in Nat
            /\ b.totalEngagements >= 0
            /\ b.totalReplies >= 0

\* the filter configuration: the dependencies of the filter effect other
\* than data
Configuration ==
    <<timeframe, customRange, filterMode, selectedTags, selectedTopics, aggregation>>

\* C25: once the rows are loaded no step changes the content or the order of
\* data, and a step that leaves the filter configuration as it is (a step of
\* report generation) leaves filteredData as it is.
C25_GenerationLeavesRowsUnchanged ==
    [][~loading =>
          /\ data' = data
          /\ Configuration' = Configuration => filteredData' = filteredData]_vars

\* C22: a step that changes the filter mode leaves selectedTags and
\* selectedTopics as they are, shows the rows the new mode's selection gives,
\* and switching back would give the rows shown before the step.
C22_ModeSwitchKeepsSelections ==
    [][filterMode' # filterMode =>
          /\ selectedTags' = selectedTags
          /\ selectedTopics' = selectedTopics
          /\ Loaded =>
                /\ filteredData' = Filtered(data, timeframe, customRange, filterMode',
                                            selectedTags, selectedTopics)
                /\ filteredData = Filtered(data', timeframe', customRange', filterMode,
                                           selectedTags', selectedTopics')]_vars

\* the mode is 'topics' after a tag was selected under 'tags', both
\* selections are kept and the two modes show different rows
C22_Witness ==
    /\ Loaded
    /\ filterMode = "topics"
    /\ selectedTags # <<>>
    /\ selectedTopics # <<>>
    /\ filteredData # Filtered(data, timeframe, customRange, "tags", selectedTags,
                               selectedTopics)

\* C26: at most one run of handleGenerateSummary is in flight and aiLoading
\* is true exactly while it is; a run starts with the first section only
\* while aiLoading is false, and the request for a later section is issued in
\* the step that stored the result of the section before it.
C26_OneRunSectionsInOrder ==
    [][/\ Len(runs') <= 1
       /\ aiLoading' <=> runs' # <<>>
       /\ runs' # <<>> => activeSectionId' = Sections[runs'[1].i]
       /\ (runs' # <<>> /\ runs = <<>>) => (~aiLoading /\ runs'[1].i = 1)
       /\ (runs' # <<>> /\ runs # <<>>) =>
             \/ runs'[1].i = runs[1].i
             \/ /\ runs'[1].i = runs[1].i + 1
                /\ \E e \in Range(aiResults') :
                       /\ e.id = Sections[runs[1].i]
                       /\ e.content \in {Paragraph, NoReports, Unavailable}]_vars

\* a run waits for its third section or a later one with earlier results
\* stored, and no button that starts a run can be clicked
C26_Witness ==
    /\ Len(runs) = 1
    /\ runs[1].i >= 3
    /\ aiLoading
    /\ Len(aiResults) >= 2
    /\ ~GenerateEnabled

\* C27: whenever a run is in flight (aiLoading is true), a later state has
\* aiLoading = false and activeSectionId = null, given that every provider
\* request settles.
C27_RunEventuallyEnds ==
    aiLoading ~> (~aiLoading /\ activeSectionId = Null)

\* a run has ended early because a later section's call threw: results of
\* earlier sections are stored and the flags are reset
C27_Witness ==
    /\ sectionPromise.state = "rejected"
    /\ aiResults # <<>>
    /\ runs = <<>>
    /\ ~aiLoading
    /\ activeSectionId = Null

\* C28: when the timeframe is 'custom' and the start or the end of the range
\* is not set, filteredData holds every row that passes the predicate of the
\* active category mode, rows with unparseable dates included, and is what
\* timeframe 'all' gives.
C28_HalfSetRangeKeepsAllDates ==
    (Loaded /\ timeframe = "custom" /\ (customRange.start = "" \/ customRange.end = "")) =>
        LET keep(d) == PassesActiveMode(d)
        IN  /\ filteredData = SelectSeq(data, keep)
            /\ filteredData = Filtered(data, "all", customRange, filterMode,
                                       selectedTags, selectedTopics)

\* timeframe 'custom' with a start and no end: a row dated before the start
\* and a row whose date does not parse are both kept
C28_Witness ==
    /\ Loaded /\ timeframe = "custom"
    /\ customRange.start = "2024-01-20" /\ customRange.end = ""
    /\ \E i, j \in DOMAIN filteredData :
           /\ filteredData[i].date = "2024-01-05"
           /\ ~parseISO(filteredData[j].date).valid

\* C29: every tag of allTags, selected alone in tags mode with no date
\* constraint, leaves at least one row; so filteredData is not empty whenever
\* a single tag is selected in tags mode and no range is active.
C29_OfferedTagMatchesARow ==
    Loaded =>
        /\ \A tag \in AllTags(data) :
               Filtered(data, "all", customRange, "tags", <<tag>>, selectedTopics) # <<>>
        /\ (~RangeActive /\ filterMode = "tags" /\ Len(selectedTags) = 1)
               => filteredData # <<>>

\* one tag is selected in tags mode with no active range: it keeps a row and
\* drops a row tagged FAIRS
C29_Witness ==
    /\ Loaded /\ ~RangeActive /\ filterMode = "tags"
    /\ Len(selectedTags) = 1
    /\ filteredData # <<>>
    /\ \E i \in DOMAIN data :
           /\ data[i].tags = "FAIRS"
           /\ data[i] \notin Range(filteredData)

\* C30: the three sentiment counts of totals add up to the number of rows of
\* filteredData, and totals.neutral counts exactly the rows whose sentiment is
\* neither positive nor negative, whatever its case.
C30_TotalsAccountForEveryRow ==
    /\ totals.positive + totals.negative + totals.neutral = Len(filteredData)
    /\ sentimentSummary[1] + sentimentSummary[2] + sentimentSummary[3] = Len(filteredData)
    /\ totals.neutral =
           Cardinality({i \in DOMAIN filteredData :
                           SentimentOf(filteredData[i]) \notin {"positive", "negative"}})

\* rows with a missing sentiment and with the label 'Mixed' are shown next to a
\* positive row and both are counted as neutral
C30_Witness ==
    /\ Loaded
    /\ totals.positive >= 1
    /\ totals.neutral >= 2
    /\ \E i, j \in DOMAIN filteredData :
           /\ filteredData[i].sentiment = Undefined
           /\ filteredData[j].sentiment = "Mixed"

====
